---- MODULE Spec2Model ----
(***************************************************************************)
(* A model of src/aggregator.py: the batch pipeline                        *)
(*   load_all_data -> apply_business_rules -> compute_metrics ->           *)
(*   render_dashboard                                                      *)
(* run once by main().  Cells of a spreadsheet are strings; a missing cell *)
(* (pandas NaN) is the string NaN.  Percentages are kept in tenths of a    *)
(* percent (round(x, 1) * 10) so that they stay integers.                  *)
(***************************************************************************)
EXTENDS Integers, Sequences, FiniteSets, TLC

VARIABLES
    files,      \* glob result: the workbooks of DATA_DIR, in glob order
    pc,         \* position of main()
    fi,         \* load_all_data: index of the file of the `for f in files` loop
    si,         \* load_all_data: index of the sheet of the inner loop
    frames,     \* load_all_data: the list `frames` (one table per appended sheet)
    df,         \* main: the unified table, then the flagged table
    agg,        \* main: the metrics table
    csv,        \* docs/aggregated_metrics.csv exists
    html        \* docs/index.html exists

vars == <<files, pc, fi, si, frames, df, agg, csv, html>>

----------------------------------------------------------------------------
(* Bounds of the explored inputs *)

MaxLoadRows == 2
MaxRegionRows == 3
MaxSessionRows == 2
MaxIgnatorRows == 2
MaxPairRows == 1
MaxStudentRows == 3

----------------------------------------------------------------------------
(* Configuration *)

NaN == "NaN"
NoCol == "<None>"

EXCLUDED_PROGRAMS ==
    { "Digikshetra", "Financial Literacy", "I-code", "IMSL-MATH",
      "Young Instructor Training", "Jignyasa", "Ecology", "Library",
      "Art & Craft", "Science Model Making", "Debate/Quiz",
      "Campus Tour", "None", "Plastic Waste Management", "Circle Time",
      "YAP Program", "IA Pre/Post", "Team Building Activity" }

COLUMN_MAP ==
    [ region        |-> <<"Region", "region">>,
      ignator_id    |-> <<"IgnatorID", "Ignator Id", "Q-Card ID", "Ignator">>,
      student_id    |-> <<"StudentID", "Student Id", "Student">>,
      session_id    |-> <<"SessionID", "Session Id", "Session">>,
      program       |-> <<"Program", "Program Name">>,
      session_date  |-> <<"SessionDate", "Date">>,
      da_pre_score  |-> <<"DA_Pre_Score", "DA Pre Score", "DA Pre">>,
      da_post_score |-> <<"DA_Post_Score", "DA Post Score", "DA Post">>,
      da_pre_date   |-> <<"DA_Pre_Date", "DA Pre Date">>,
      da_post_date  |-> <<"DA_Post_Date", "DA Post Date">> ]

Keys == DOMAIN COLUMN_MAP

----------------------------------------------------------------------------
(* Helpers *)

\* find_col: the first alias of `options` that is a column of the sheet.
find_col(columns, options) ==
    IF \E i \in 1..Len(options) : options[i] \in columns
    THEN options[CHOOSE i \in 1..Len(options) :
                    /\ options[i] \in columns
                    /\ \A j \in 1..(i-1) : options[j] \notin columns]
    ELSE NoCol

\* normalize_df: one canonical row per row of the sheet.  `out` takes its
\* index from the first column assigned from the sheet; with no canonical
\* column found every assignment is the scalar NaN and `out` has no row.
normalize_df(sheet) ==
    LET col == [k \in Keys |-> find_col(sheet.columns, COLUMN_MAP[k])]
    IN  IF \A k \in Keys : col[k] = NoCol
        THEN << >>
        ELSE [i \in 1..Len(sheet.rows) |->
                [k \in Keys |-> IF col[k] = NoCol THEN NaN
                                ELSE sheet.rows[i][col[k]]]]

\* df['region'].isnull().all()
RegionAllNull(t) == \A i \in 1..Len(t) : t[i].region = NaN

\* os.path.splitext(os.path.basename(f))[0]
Stem(f) == f.stem

\* A fallback applied to each null cell instead of to the unit.
RegionFallbackPerCell(t, f) ==
    [i \in 1..Len(t) |->
        IF t[i].region = NaN THEN [t[i] EXCEPT !.region = Stem(f)] ELSE t[i]]

\* Lines 58-60: the fallback overwrites the whole region column.
RegionFallback(t, f) ==
    IF RegionAllNull(t)
    THEN [i \in 1..Len(t) |-> [t[i] EXCEPT !.region = Stem(f)]]
    ELSE t

RECURSIVE Concat(_)
\* pd.concat(frames, ignore_index=True)
Concat(fs) == IF fs = << >> THEN << >> ELSE Head(fs) \o Concat(Tail(fs))

----------------------------------------------------------------------------
(* apply_business_rules *)

NaT == [nat |-> TRUE, day |-> 0, tod |-> 0]

\* pd.to_datetime(..., errors='coerce') on the date cells the inputs use:
\* a timestamp is parsed to its calendar day and time of day, anything else
\* (a missing cell, free text) becomes NaT.
to_datetime(v) ==
    CASE v = "2024-03-05 09:00" -> [nat |-> FALSE, day |-> 5, tod |-> 900]
      [] v = "2024-03-05 17:30" -> [nat |-> FALSE, day |-> 5, tod |-> 1730]
      [] v = "2024-03-06 09:00" -> [nat |-> FALSE, day |-> 6, tod |-> 900]
      [] OTHER -> NaT

\* Series.astype(str): a missing cell becomes the string "nan".
astype_str(v) == IF v = NaN THEN "nan" ELSE v

notna(v) == v # NaN
dt_notna(d) == ~d.nat

\* The timestamp itself, the time of day not dropped.
dt_timestamp(d) == [nat |-> d.nat, day |-> d.day * 10000 + d.tod]

\* .dt.date: the calendar day, NaT for NaT.
dt_date(d) == [nat |-> d.nat, day |-> d.day]

\* == on two .dt.date columns: NaT equals nothing.
date_eq(a, b) == ~a.nat /\ ~b.nat /\ a.day = b.day

\* Line 80.
prepost_same_date(pre, post) ==
    dt_notna(pre) /\ dt_notna(post) /\ date_eq(dt_date(pre), dt_date(post))

\* Lines 70-81 on one row (every assignment is row-local).
flag_row(r) ==
    LET sd   == to_datetime(r.session_date)
        pred == to_datetime(r.da_pre_date)
        postd == to_datetime(r.da_post_date)
        prog == astype_str(r.program)
        hp   == notna(r.da_pre_score)
        hq   == notna(r.da_post_score)
        same == prepost_same_date(pred, postd)
    IN  [ region |-> r.region, ignator_id |-> r.ignator_id,
          student_id |-> r.student_id, session_id |-> r.session_id,
          program |-> prog, session_date |-> sd,
          da_pre_score |-> r.da_pre_score, da_post_score |-> r.da_post_score,
          da_pre_date |-> pred, da_post_date |-> postd,
          is_excluded_program |-> prog \in EXCLUDED_PROGRAMS,
          has_pre |-> hp, has_post |-> hq,
          prepost_same_date |-> same,
          valid_prepost_pair |-> hp /\ hq /\ same ]

apply_business_rules(t) == [i \in 1..Len(t) |-> flag_row(t[i])]

----------------------------------------------------------------------------
(* compute_metrics *)

\* Python's order of the region names the inputs use (code point order).
LexOrder == <<"East", "North", "South", "Unknown", "east", "west">>

StrRank(s) == CHOOSE i \in 1..Len(LexOrder) : LexOrder[i] = s

StrLess(a, b) == StrRank(a) < StrRank(b)

RECURSIVE unique(_)
\* Series.unique(): the distinct values in order of first appearance.
unique(s) ==
    IF s = << >> THEN << >>
    ELSE LET init == unique(SubSeq(s, 1, Len(s) - 1))
             x == s[Len(s)]
         IN  IF \E i \in 1..Len(init) : init[i] = x THEN init
             ELSE Append(init, x)

\* Insert x into the ascending sequence s, after the elements not above it.
Insert(s, x) ==
    LET k == Cardinality({i \in 1..Len(s) : ~StrLess(x, s[i])})
    IN  SubSeq(s, 1, k) \o <<x>> \o SubSeq(s, k + 1, Len(s))

RECURSIVE sorted(_)
\* sorted(regions)
sorted(s) ==
    IF s = << >> THEN << >>
    ELSE Insert(sorted(SubSeq(s, 1, Len(s) - 1)), s[Len(s)])

Column(t, k) == [i \in 1..Len(t) |-> t[i][k]]

fillna(s, v) == [i \in 1..Len(s) |-> IF s[i] = NaN THEN v ELSE s[i]]

dropna(s) == SelectSeq(s, LAMBDA x : x # NaN)

\* Series.nunique(): the number of distinct non-null values.
nunique(s) == Cardinality({s[i] : i \in 1..Len(s)} \ {NaN})

\* Series.sum() of a boolean column.
count_true(s) == Cardinality({i \in 1..Len(s) : s[i]})

\* round(num / den * 100, 1) in tenths of a percent, den > 0: the nearest
\* tenth, a tie going to the even one.
round_pct(num, den) ==
    LET n == num * 1000
        q == n \div den
        r == n % den
    IN  IF 2 * r > den THEN q + 1
        ELSE IF 2 * r < den THEN q
        ELSE IF q % 2 = 0 THEN q ELSE q + 1

max(a, b) == IF a >= b THEN a ELSE b

\* Line 88: df[df['region'] == r]; a null region equals no name.
region_rows(t, r) == SelectSeq(t, LAMBDA x : x.region = r)

\* No exclusion at all.
eligible_all(t) == t

\* Lines 90 and 127: the rows whose program is not excluded.
eligible(t) == SelectSeq(t, LAMBDA x : ~x.is_excluded_program)

\* Lines 101-107 with the test on the post scores forgotten.
no_da_ignators_pre_only(es) ==
    LET igns == unique(dropna(Column(es, "ignator_id")))
        noDA(ign) ==
            LET ign_rows == SelectSeq(es, LAMBDA x : x.ignator_id = ign)
            IN  count_true(Column(ign_rows, "has_pre")) = 0
    IN  SelectSeq(igns, noDA)

\* Lines 101-107.
no_da_ignators(es) ==
    LET igns == unique(dropna(Column(es, "ignator_id")))
        noDA(ign) ==
            LET ign_rows == SelectSeq(es, LAMBDA x : x.ignator_id = ign)
            IN  /\ count_true(Column(ign_rows, "has_pre")) = 0
                /\ count_true(Column(ign_rows, "has_post")) = 0
    IN  SelectSeq(igns, noDA)

\* Line 99.
region_completion(da_post_count, session_count) ==
    IF session_count > 0 THEN round_pct(da_post_count, session_count) ELSE 0

\* Line 98.
region_wastage(gap, da_pre_count) ==
    IF da_pre_count > 0 THEN round_pct(gap, da_pre_count) ELSE 0

\* Lines 88-120: the row of region r.
region_row(t, r) ==
    LET sub == region_rows(t, r)
        es  == eligible(sub)
        session_count == nunique(Column(es, "session_id"))
        pre  == count_true(Column(sub, "has_pre"))
        post == count_true(Column(sub, "has_post"))
        gap  == pre - post
        lst  == no_da_ignators(es)
    IN  [ Region |-> r,
          UniqueStudents |-> nunique(Column(sub, "student_id")),
          UniqueIgnators |-> nunique(Column(sub, "ignator_id")),
          SessionCount |-> session_count,
          DAPre |-> pre, DAPost |-> post,
          CompletionRate |-> region_completion(post, session_count),
          Gap |-> gap,
          Wastage |-> region_wastage(gap, pre),
          NoDACount |-> Len(lst),
          NoDAList |-> lst ]

\* Line 130.
total_completion(da_post_count, session_count) ==
    round_pct(da_post_count, max(1, session_count))

\* Lines 123-135.
total_row(t) ==
    LET session_count == nunique(Column(eligible(t), "session_id"))
        pre  == count_true(Column(t, "has_pre"))
        post == count_true(Column(t, "has_post"))
    IN  [ Region |-> "TOTAL",
          UniqueStudents |-> nunique(Column(t, "student_id")),
          UniqueIgnators |-> nunique(Column(t, "ignator_id")),
          SessionCount |-> session_count,
          DAPre |-> pre, DAPost |-> post,
          CompletionRate |-> total_completion(post, session_count),
          Gap |-> pre - post,
          Wastage |-> round_pct(pre - post, max(1, pre)),
          NoDACount |-> 0,
          NoDAList |-> << >> ]

\* Line 86.
region_names(t) == unique(fillna(Column(t, "region"), "Unknown"))

\* Line 87: the order of the per-region loop.
region_order(t) == sorted(region_names(t))

compute_metrics(t) ==
    LET rs == region_order(t)
    IN  [i \in 1..Len(rs) |-> region_row(t, rs[i])] \o <<total_row(t)>>

----------------------------------------------------------------------------
(* load_all_data, as the steps of its two loops *)

\* pd.read_excel(f, sheet_name=None) parses every sheet of the workbook
\* before the inner loop starts: it raises if any sheet cannot be read.
read_excel_raises(f) ==
    \E k \in 1..Len(f.sheets) : f.sheets[k].status = "unreadable"

\* Lines 56-60 raise on this sheet.
normalize_raises(sheet) == sheet.status = "raises"

\* Lines 56-60.
sheet_frame(f, sheet) == RegionFallback(normalize_df(sheet), f)

\* Lines 154-155 and 50-51: main prints, load_all_data lists the workbooks.
LoadStart ==
    /\ pc = "main"
    /\ pc' = "for_file"
    /\ fi' = 1
    /\ frames' = << >>
    /\ UNCHANGED <<files, si, df, agg, csv, html>>

\* Line 54 returns the sheets of the workbook.
ReadExcel ==
    /\ pc = "for_file"
    /\ fi <= Len(files)
    /\ ~read_excel_raises(files[fi])
    /\ pc' = "for_sheet"
    /\ si' = 1
    /\ UNCHANGED <<files, fi, frames, df, agg, csv, html>>

\* Line 54 raises: lines 62-63 print and the outer loop goes on.
ReadExcelError ==
    /\ pc = "for_file"
    /\ fi <= Len(files)
    /\ read_excel_raises(files[fi])
    /\ fi' = fi + 1
    /\ UNCHANGED <<files, pc, si, frames, df, agg, csv, html>>

\* Lines 55-61 for one sheet; after the last sheet the outer loop goes on.
NormalizeSheet ==
    /\ pc = "for_sheet"
    /\ LET f == files[fi]
           sheet == f.sheets[si]
       IN  /\ ~normalize_raises(sheet)
           /\ frames' = Append(frames, sheet_frame(f, sheet))
           /\ IF si < Len(f.sheets)
              THEN si' = si + 1 /\ UNCHANGED <<pc, fi>>
              ELSE pc' = "for_file" /\ fi' = fi + 1 /\ UNCHANGED si
    /\ UNCHANGED <<files, df, agg, csv, html>>

\* Lines 56-60 raise inside the inner loop: the except clause of the outer
\* loop's body catches it, which leaves the inner loop.
NormalizeError ==
    /\ pc = "for_sheet"
    /\ normalize_raises(files[fi].sheets[si])
    /\ pc' = "for_file"
    /\ fi' = fi + 1
    /\ UNCHANGED <<files, si, frames, df, agg, csv, html>>

\* Lines 64-66.
load_result(fs) == IF fs = << >> THEN << >> ELSE Concat(fs)

LoadReturn ==
    /\ pc = "for_file"
    /\ fi > Len(files)
    /\ df' = load_result(frames)
    /\ pc' = "check_empty"
    /\ UNCHANGED <<files, fi, si, frames, agg, csv, html>>

----------------------------------------------------------------------------
(* main and render_dashboard *)

\* Lines 156-158.
MainEmpty ==
    /\ pc = "check_empty"
    /\ df = << >>
    /\ pc' = "done"
    /\ UNCHANGED <<files, fi, si, frames, df, agg, csv, html>>

\* Line 159.
ApplyBusinessRules ==
    /\ pc = "check_empty"
    /\ df # << >>
    /\ df' = apply_business_rules(df)
    /\ pc' = "compute"
    /\ UNCHANGED <<files, fi, si, frames, agg, csv, html>>

\* Line 160.
ComputeMetrics ==
    /\ pc = "compute"
    /\ agg' = compute_metrics(df)
    /\ pc' = "makedirs"
    /\ UNCHANGED <<files, fi, si, frames, df, csv, html>>

\* Line 140.
MakeDirs ==
    /\ pc = "makedirs"
    /\ pc' = "to_csv"
    /\ UNCHANGED <<files, fi, si, frames, df, agg, csv, html>>

\* Line 140 raises (docs cannot be created): main ends with the exception.
MakeDirsError ==
    /\ pc = "makedirs"
    /\ pc' = "failed"
    /\ UNCHANGED <<files, fi, si, frames, df, agg, csv, html>>

\* Line 141.
ToCsv ==
    /\ pc = "to_csv"
    /\ csv' = TRUE
    /\ pc' = "write_html"
    /\ UNCHANGED <<files, fi, si, frames, df, agg, html>>

\* Line 141 raises; the file may or may not have been created.
ToCsvError ==
    /\ pc = "to_csv"
    /\ csv' \in BOOLEAN
    /\ pc' = "failed"
    /\ UNCHANGED <<files, fi, si, frames, df, agg, html>>

\* Lines 143-151.
WriteHtml ==
    /\ pc = "write_html"
    /\ html' = TRUE
    /\ pc' = "done"
    /\ UNCHANGED <<files, fi, si, frames, df, agg, csv>>

\* Lines 143-150 raise (building or writing the chart); nothing removes the
\* CSV written by line 141.
WriteHtmlError ==
    /\ pc = "write_html"
    /\ html' \in BOOLEAN
    /\ pc' = "failed"
    /\ UNCHANGED <<files, fi, si, frames, df, agg, csv>>

Next ==
    \/ LoadStart
    \/ ReadExcel
    \/ ReadExcelError
    \/ NormalizeSheet
    \/ NormalizeError
    \/ LoadReturn
    \/ MainEmpty
    \/ ApplyBusinessRules
    \/ ComputeMetrics
    \/ MakeDirs
    \/ MakeDirsError
    \/ ToCsv
    \/ ToCsvError
    \/ WriteHtml
    \/ WriteHtmlError

----------------------------------------------------------------------------
(* The inputs: the workbooks found in DATA_DIR *)

FullHeader ==
    { "Region", "IgnatorID", "StudentID", "SessionID", "Program",
      "SessionDate", "DA_Pre_Score", "DA_Post_Score", "DA_Pre_Date",
      "DA_Post_Date" }

AltHeader ==
    { "region", "Q-Card ID", "Student", "Session", "Program Name", "Date",
      "DA Pre", "DA Post", "DA Pre Date", "DA Post Date" }

NoRegionHeader == FullHeader \ {"Region"}

NotesHeader == {"Notes"}

Aliases(k) == {COLUMN_MAP[k][i] : i \in 1..Len(COLUMN_MAP[k])}

\* The cell of column c in a sheet row that carries the canonical values v.
Cell(c, v) ==
    IF \E k \in Keys : c \in Aliases(k)
    THEN v[CHOOSE k \in Keys : c \in Aliases(k)]
    ELSE "free text"

RawRows(header, rows) ==
    [i \in 1..Len(rows) |-> [c \in header |-> Cell(c, rows[i])]]

Sheet(header, status, rows) ==
    [columns |-> header, status |-> status, rows |-> RawRows(header, rows)]

File(stem, sheets) == [stem |-> stem, sheets |-> sheets]

SeqsUpTo(S, n) == UNION {[1..k -> S] : k \in 0..n}

BaseRow ==
    [ region |-> "North", ignator_id |-> "I1", student_id |-> "S1",
      session_id |-> "E1", program |-> "Math",
      session_date |-> "2024-03-05 09:00",
      da_pre_score |-> "7", da_post_score |-> "9",
      da_pre_date |-> "2024-03-05 09:00",
      da_post_date |-> "2024-03-05 17:30" ]

UnreadableSheet == Sheet(FullHeader, "unreadable", <<BaseRow>>)
RaisingSheet == Sheet(FullHeader, "raises", <<BaseRow>>)
NotesSheet == Sheet(NotesHeader, "ok", <<BaseRow>>)
AltSheet == Sheet(AltHeader, "ok", <<BaseRow, [BaseRow EXCEPT !.region = NaN]>>)
GoodSheet == Sheet(FullHeader, "ok", <<[BaseRow EXCEPT !.region = "South"]>>)

\* Inputs every specification explores, whatever else it varies: no
\* workbook, workbooks that fail to load, workbooks without any row.
CommonInputs ==
    { << >>,
      <<File("east", <<UnreadableSheet>>)>>,
      <<File("east", <<RaisingSheet>>), File("west", <<AltSheet>>)>>,
      <<File("east", <<NotesSheet, GoodSheet>>)>>,
      <<File("east", <<GoodSheet, RaisingSheet, AltSheet>>),
        File("west", <<GoodSheet>>)>>,
      <<File("east", <<GoodSheet, UnreadableSheet>>),
        File("west", <<Sheet(NoRegionHeader, "ok", <<BaseRow>>)>>)>> }

\* Loading: the sheets vary in their header, in whether they load, and in
\* the region cells of their rows.
LoadRows == {[BaseRow EXCEPT !.region = r] : r \in {NaN, "North"}}

LoadSheets ==
    {Sheet(h, "ok", rows) :
        h \in {FullHeader, NoRegionHeader},
        rows \in SeqsUpTo(LoadRows, MaxLoadRows)}
    \cup {UnreadableSheet, RaisingSheet, NotesSheet}

\* Classification: one sheet whose rows vary in the two scores and dates.
DateCells ==
    { NaN, "n/a", "2024-03-05 09:00", "2024-03-05 17:30", "2024-03-06 09:00" }

PairRows ==
    {[BaseRow EXCEPT !.da_pre_score = t[1], !.da_post_score = t[2],
                     !.da_pre_date = t[3], !.da_post_date = t[4]] :
        t \in {NaN, "7"} \X {NaN, "9"} \X DateCells \X DateCells}

OneSheet(rows) == <<File("east", <<Sheet(FullHeader, "ok", rows)>>)>>

\* Aggregation: one sheet whose rows vary in the fields a metric reads.
RegionRows ==
    {[BaseRow EXCEPT !.region = r] : r \in {NaN, "North", "South", "Unknown"}}

SessionRows ==
    {[BaseRow EXCEPT !.region = t[1], !.session_id = t[2], !.program = t[3],
                     !.da_post_score = t[4]] :
        t \in {NaN, "North", "South"} \X {NaN, "E1", "E2"}
              \X {"Math", "Library"} \X {NaN, "9"}}

IgnatorRows ==
    {[BaseRow EXCEPT !.region = t[1], !.ignator_id = t[2], !.program = t[3],
                     !.da_pre_score = t[4][1], !.da_post_score = t[4][2]] :
        t \in {"North", "South"} \X {NaN, "I1", "I2"} \X {"Math", "Library"}
              \X {<<NaN, NaN>>, <<"7", NaN>>, <<NaN, "9">>}}

StudentRows ==
    {[BaseRow EXCEPT !.region = t[1], !.student_id = t[2],
                     !.ignator_id = t[2]] :
        t \in {NaN, "North", "South"} \X {NaN, "S1", "S2"}}

\* The state main() starts in, with the workbooks fs in DATA_DIR.
InitWith(fs) ==
    /\ files = fs
    /\ pc = "main"
    /\ fi = 1
    /\ si = 1
    /\ frames = << >>
    /\ df = << >>
    /\ agg = << >>
    /\ csv = FALSE
    /\ html = FALSE

InitCommon == \E fs \in CommonInputs : InitWith(fs)

\* One workbook of up to three sheets, alone or followed by a second one.
InitLoad ==
    \/ InitCommon
    \/ \E n \in 1..3 : \E ss \in [1..n -> LoadSheets] :
            InitWith(<<File("east", ss)>>)
    \/ \E n \in 1..2 : \E ss \in [1..n -> LoadSheets] :
            InitWith(<<File("east", ss), File("west", <<GoodSheet>>)>>)

InitRules ==
    \/ InitCommon
    \/ \E n \in 0..MaxPairRows : \E rows \in [1..n -> PairRows] :
            InitWith(OneSheet(rows))

InitMetrics ==
    \/ InitCommon
    \/ \E n \in 0..MaxRegionRows : \E rows \in [1..n -> RegionRows] :
            InitWith(OneSheet(rows))
    \/ \E n \in 1..MaxSessionRows : \E rows \in [1..n -> SessionRows] :
            InitWith(OneSheet(rows))
    \/ \E n \in 1..MaxIgnatorRows : \E rows \in [1..n -> IgnatorRows] :
            InitWith(OneSheet(rows))
    \/ \E n \in 1..MaxStudentRows : \E rows \in [1..n -> StudentRows] :
            InitWith(OneSheet(rows))

SpecLoad == InitLoad /\ [][Next]_vars
SpecRules == InitRules /\ [][Next]_vars
SpecMetrics == InitMetrics /\ [][Next]_vars

----------------------------------------------------------------------------
(* Vocabulary of the properties *)

\* load_all_data has returned and df still is its result.
Loaded == pc = "check_empty"

\* df is the flagged table.
Flagged == pc = "compute" \/ agg # << >>

\* agg is the metrics table.
Computed == agg # << >>

\* main has ended, by returning or by an exception.
Terminal == pc \in {"done", "failed"}

RegionRowIdx == 1..(Len(agg) - 1)

TotalRow == agg[Len(agg)]

RECURSIVE SumField(_, _)
SumField(rows, k) ==
    IF rows = << >> THEN 0 ELSE Head(rows)[k] + SumField(Tail(rows), k)

RegionRowsOfAgg == SubSeq(agg, 1, Len(agg) - 1)

\* The records of region r, as the specification defines S_r.
RecordsOf(r) == {i \in 1..Len(df) : df[i].region = r}

\* The units of the input in load order, each with its file.
RECURSIVE UnitsOfSheets(_, _)
UnitsOfSheets(f, ss) ==
    IF ss = << >> THEN << >>
    ELSE <<[file |-> f, sheet |-> Head(ss)]>> \o UnitsOfSheets(f, Tail(ss))

RECURSIVE UnitsOf(_)
UnitsOf(fs) ==
    IF fs = << >> THEN << >>
    ELSE UnitsOfSheets(Head(fs), Head(fs).sheets) \o UnitsOf(Tail(fs))

\* The cell of canonical field k in row i of a sheet, NaN without a column.
RawCell(sheet, i, k) ==
    IF Aliases(k) \cap sheet.columns = {} THEN NaN
    ELSE LET c == CHOOSE a \in Aliases(k) \cap sheet.columns :
                     \A j \in 1..Len(COLUMN_MAP[k]) :
                        COLUMN_MAP[k][j] \in sheet.columns =>
                            \E m \in 1..j : COLUMN_MAP[k][m] = a
         IN  sheet.rows[i][c]

\* The rows a unit contributes when it loads: its own rows, the region
\* replaced by the file's name when no row has one.
UnitRecords(u) ==
    LET sh == u.sheet
        n == IF \A k \in Keys : Aliases(k) \cap sh.columns = {} THEN 0
             ELSE Len(sh.rows)
        noRegion == \A i \in 1..n : RawCell(sh, i, "region") = NaN
    IN  [i \in 1..n |->
            [k \in Keys |->
                IF k = "region" /\ noRegion THEN u.file.stem
                ELSE RawCell(sh, i, k)]]

RECURSIVE ConcatUnits(_)
ConcatUnits(us) ==
    IF us = << >> THEN << >>
    ELSE (IF Head(us).sheet.status = "ok" THEN UnitRecords(Head(us)) ELSE << >>)
         \o ConcatUnits(Tail(us))

----------------------------------------------------------------------------
(* C1 *)

\* C1 as stated: after load_all_data every record of the unified table has
\* a non-null region, whatever the units were.
C1_RegionNeverNull ==
    Loaded => \A i \in 1..Len(df) : df[i].region # NaN

\* C1 amended: every table appended by load_all_data comes from one unit and
\*   - if the unit has no region column or only null region cells, each of
\*     its records has the file's name as region (never null);
\*   - otherwise each record keeps the region cell of its row, null cells
\*     included;
\* and the unified table is the concatenation of these tables, so a record
\* with a null region comes from a unit that mixes null and non-null cells.
C1_FallbackPerUnit ==
    /\ [][ (pc = "for_sheet" /\ frames' # frames) =>
             LET sh == files[fi].sheets[si]
                 new == frames'[Len(frames')]
                 n == Len(new)
                 allNull == \A i \in 1..n : RawCell(sh, i, "region") = NaN
             IN  /\ frames' = Append(frames, new)
                 /\ \A i \in 1..n :
                      new[i].region =
                        IF allNull THEN files[fi].stem
                        ELSE RawCell(sh, i, "region")
                 /\ allNull => \A i \in 1..n : new[i].region # NaN ]_vars
    /\ [](Loaded =>
            /\ df = Concat(frames)
            /\ \A i \in 1..Len(df) : df[i].region = NaN =>
                 \E j \in 1..Len(frames) :
                    /\ \E k \in 1..Len(frames[j]) : frames[j][k].region = NaN
                    /\ \E k \in 1..Len(frames[j]) : frames[j][k].region # NaN)

\* A unit without region column got the file's name and a unit with mixed
\* region cells kept a null.
C1_Witness ==
    /\ Loaded
    /\ \E i \in 1..Len(df) : df[i].region = "east"
    /\ \E i \in 1..Len(df) : df[i].region = NaN
    /\ \E i \in 1..Len(df) : df[i].region = "North"

----------------------------------------------------------------------------
(* C5 *)

\* C5 as stated: when a unit fails to load only that unit is dropped: the
\* unified table is made of the records of every unit that does not itself
\* fail, in load order, and loading completes.
C5_OnlyFailedUnitDropped ==
    Loaded => df = ConcatUnits(UnitsOf(files))

\* The part of C5 the code keeps: a unit that fails contributes nothing,
\* every file before and after a failing file is loaded, and loading ends.
C5_FailedUnitContributesNothing ==
    Loaded =>
        \A j \in 1..Len(frames) :
            \E u \in 1..Len(UnitsOf(files)) :
                /\ UnitsOf(files)[u].sheet.status = "ok"
                /\ frames[j] = UnitRecords(UnitsOf(files)[u])

----------------------------------------------------------------------------
(* C4 *)

\* C4 as stated: when main has ended, both artifacts exist or neither.
C4_BothOrNeither == Terminal => (csv <=> html)

\* The part of C4 the code keeps: with empty input nothing is written, and
\* a run that returns normally after rendering wrote both.
C4_EmptyWritesNothing ==
    /\ (Terminal /\ agg = << >>) => (~csv /\ ~html)
    /\ (pc = "done" /\ agg # << >>) => (csv /\ html)

----------------------------------------------------------------------------
(* C8 *)

\* The calendar day and the presence of a date cell, read off the cell.
CellIsDate(v) ==
    v \in {"2024-03-05 09:00", "2024-03-05 17:30", "2024-03-06 09:00"}

CellDay(v) ==
    IF v \in {"2024-03-05 09:00", "2024-03-05 17:30"} THEN "2024-03-05"
    ELSE "2024-03-06"

\* The date cells that differ from v in the time of day only.
SameDayCells(v) ==
    IF CellIsDate(v)
    THEN {w \in DateCells : CellIsDate(w) /\ CellDay(w) = CellDay(v)}
    ELSE {v}

\* The unified table the flagged table was computed from.
Unified == Concat(frames)

\* C8: valid_prepost_pair of a record is true iff its pre score is present,
\* its post score is present, and both DA dates are present (not null, not
\* unparseable) and on the same calendar day; replacing a date by the same
\* day at another time of day leaves the flag as it is.
C8_ValidPairIffSameDay ==
    Flagged =>
        /\ Len(df) = Len(Unified)
        /\ \A i \in 1..Len(df) :
            LET raw == Unified[i]
            IN  /\ df[i].valid_prepost_pair <=>
                      /\ raw.da_pre_score # NaN
                      /\ raw.da_post_score # NaN
                      /\ CellIsDate(raw.da_pre_date)
                      /\ CellIsDate(raw.da_post_date)
                      /\ CellDay(raw.da_pre_date) = CellDay(raw.da_post_date)
                /\ \A a \in SameDayCells(raw.da_pre_date),
                      b \in SameDayCells(raw.da_post_date) :
                        flag_row([raw EXCEPT !.da_pre_date = a,
                                             !.da_post_date = b]).valid_prepost_pair
                            = df[i].valid_prepost_pair

\* A record flagged valid whose two dates are the same day at different
\* times, next to the flagged table.
C8_Witness ==
    /\ Flagged
    /\ \E i \in 1..Len(df) :
        /\ df[i].valid_prepost_pair
        /\ df[i].da_pre_date.day = df[i].da_post_date.day
        /\ df[i].da_pre_date.tod # df[i].da_post_date.tod

----------------------------------------------------------------------------
(* C2 *)

\* C2 as stated: every row of the metrics table, the TOTAL row included,
\* has a completion rate of 0.0 when its session count is 0.
C2_ZeroSessionsZeroRate ==
    Computed =>
        \A k \in 1..Len(agg) :
            agg[k].SessionCount = 0 => agg[k].CompletionRate = 0

\* The part of C2 the code keeps: the per-region rows.
C2_RegionRowsZeroRate ==
    Computed =>
        \A k \in RegionRowIdx :
            agg[k].SessionCount = 0 => agg[k].CompletionRate = 0

----------------------------------------------------------------------------
(* C3 *)

\* C3 as stated: one row per distinct region value that occurs in the
\* records, in ascending order of name, then exactly one TOTAL row, the
\* last; no row for a region without a record.
C3_OneRowPerRegion ==
    Computed =>
        LET regs == {df[i].region : i \in 1..Len(df)} \ {NaN}
        IN  /\ Len(agg) = Cardinality(regs) + 1
            /\ TotalRow.Region = "TOTAL"
            /\ \A k \in RegionRowIdx :
                /\ agg[k].Region \in regs
                /\ RecordsOf(agg[k].Region) # {}
            /\ \A k, m \in RegionRowIdx :
                k < m => StrLess(agg[k].Region, agg[m].Region)

\* The part of C3 the code keeps: the rows are those of the region names
\* after line 86 renamed the null regions to 'Unknown', ascending, each
\* once, then TOTAL.
C3_RowsOfFilledRegions ==
    Computed =>
        LET regs == {IF df[i].region = NaN THEN "Unknown" ELSE df[i].region :
                        i \in 1..Len(df)}
        IN  /\ Len(agg) = Cardinality(regs) + 1
            /\ TotalRow.Region = "TOTAL"
            /\ \A k \in RegionRowIdx : agg[k].Region \in regs
            /\ \A k, m \in RegionRowIdx :
                k < m => StrLess(agg[k].Region, agg[m].Region)

----------------------------------------------------------------------------
(* C6 *)

\* C6: the session count of a region row is the number of distinct (non-null)
\* session_id among the records of the region that are not of an excluded
\* program; a session_id that only excluded records carry is not counted,
\* while the unique students and ignators count the excluded records too.
C6_SessionCountExcludes ==
    Computed =>
        \A k \in RegionRowIdx :
            LET S == RecordsOf(agg[k].Region)
                E == {i \in S : ~df[i].is_excluded_program}
            IN  /\ agg[k].SessionCount =
                      Cardinality({df[i].session_id : i \in E} \ {NaN})
                /\ \A i \in S \ E :
                      (\A j \in E : df[j].session_id # df[i].session_id)
                          => agg[k].SessionCount
                               <= Cardinality({df[j].session_id : j \in S}
                                              \ {NaN, df[i].session_id})
                /\ agg[k].UniqueStudents =
                      Cardinality({df[i].student_id : i \in S} \ {NaN})
                /\ agg[k].UniqueIgnators =
                      Cardinality({df[i].ignator_id : i \in S} \ {NaN})

\* A region with an eligible session and another session that only an
\* excluded-program record carries: the latter is not counted.
C6_Witness ==
    /\ Computed
    /\ \E k \in RegionRowIdx :
        /\ agg[k].SessionCount = 1
        /\ agg[k].UniqueStudents = 1
        /\ \E i, j \in RecordsOf(agg[k].Region) :
            /\ df[i].is_excluded_program
            /\ ~df[j].is_excluded_program
            /\ df[i].session_id # NaN
            /\ df[j].session_id # NaN
            /\ df[i].session_id # df[j].session_id

----------------------------------------------------------------------------
(* C7 *)

\* Some value of field k occurs in two records of different (non-null)
\* regions.
InTwoRegions(k) ==
    \E i, j \in 1..Len(df) :
        /\ df[i][k] # NaN
        /\ df[i][k] = df[j][k]
        /\ df[i].region # NaN
        /\ df[j].region # NaN
        /\ df[i].region # df[j].region

\* C7 as stated: the TOTAL row's unique students and ignators are the
\* distinct non-null values over all records, and are strictly below the
\* sum of the per-region values when a student or ignator is in more than
\* one region.
C7_TotalUniqueNotAdditive ==
    Computed =>
        /\ TotalRow.UniqueStudents =
              Cardinality({df[i].student_id : i \in 1..Len(df)} \ {NaN})
        /\ TotalRow.UniqueIgnators =
              Cardinality({df[i].ignator_id : i \in 1..Len(df)} \ {NaN})
        /\ InTwoRegions("student_id") =>
              TotalRow.UniqueStudents
                < SumField(RegionRowsOfAgg, "UniqueStudents")
        /\ InTwoRegions("ignator_id") =>
              TotalRow.UniqueIgnators
                < SumField(RegionRowsOfAgg, "UniqueIgnators")

\* The part of C7 the code keeps: the TOTAL row counts over all records.
C7_TotalUniqueOverAll ==
    Computed =>
        /\ TotalRow.UniqueStudents =
              Cardinality({df[i].student_id : i \in 1..Len(df)} \ {NaN})
        /\ TotalRow.UniqueIgnators =
              Cardinality({df[i].ignator_id : i \in 1..Len(df)} \ {NaN})

----------------------------------------------------------------------------
(* C9 *)

SeqToSet(q) == {q[i] : i \in 1..Len(q)}

\* C9: the list of a region row holds exactly the non-null ignators that
\* have a non-excluded record in the region and no pre or post score on any
\* of their non-excluded records of the region, each once; the count is the
\* length of the list; the TOTAL row has count 0 and an empty list.
C9_NoDAIgnators ==
    Computed =>
        /\ \A k \in RegionRowIdx :
            LET E == {i \in RecordsOf(agg[k].Region) :
                        ~df[i].is_excluded_program}
                lst == agg[k].NoDAList
            IN  /\ SeqToSet(lst) =
                      {df[i].ignator_id : i \in E} \ 
                      ({NaN} \cup {df[i].ignator_id :
                                     i \in {j \in E : df[j].has_pre
                                                      \/ df[j].has_post}})
                /\ Cardinality(SeqToSet(lst)) = Len(lst)
                /\ agg[k].NoDACount = Len(lst)
        /\ TotalRow.NoDACount = 0
        /\ TotalRow.NoDAList = << >>

\* An ignator on the list of a region although an excluded-program record
\* of that region carries a score for it.
C9_Witness ==
    /\ Computed
    /\ \E k \in RegionRowIdx :
        \E i \in RecordsOf(agg[k].Region) :
            /\ df[i].is_excluded_program
            /\ df[i].has_pre \/ df[i].has_post
            /\ df[i].ignator_id \in SeqToSet(agg[k].NoDAList)

----------------------------------------------------------------------------
(* C10 *)

\* C10 as stated: the DA-Pre of the per-region rows sum to the TOTAL row's
\* DA-Pre, and likewise DA-Post: every record is counted in one region row.
C10_RegionSumsEqualTotal ==
    Computed =>
        /\ SumField(RegionRowsOfAgg, "DAPre") = TotalRow.DAPre
        /\ SumField(RegionRowsOfAgg, "DAPost") = TotalRow.DAPost

====
